---- MODULE Spec2Model ----
(***************************************************************************)
(* Verification model of the wearable-notebooks pipeline: outlier          *)
(* injection, z-score detection and neighbour imputation (Abbott FreeStyle *)
(* Libre and Polar H10 notebooks), the smart-scale slope imputation        *)
(* (Withings Body+), the non-adherence simulations (Strava /               *)
(* MyFitnessPal / Cronometer AdherenceSimulator, Polar H10, Withings       *)
(* Body+, Withings ScanWatch remove_dates, the Abbott flagging cell), the  *)
(* Abbott statistical summary cells, cells that are run again, the seeded  *)
(* cells of the Fitbit and Garmin notebooks, the Dexcom synthetic series,  *)
(* the same cells run with form parameters outside their range, the        *)
(* multivariate-normal cleaning and the start/stop list of the Withings    *)
(* notebooks, the Polar H10 detection cell and the Fitbit non-adherence    *)
(* frame.                                                                  *)
(*                                                                         *)
(* Python lists are 0-indexed; the sequences here are 1-indexed, so the    *)
(* element at Python index i is s[i + 1].  Index sets (lcs, idxes,         *)
(* random_indices) hold Python indices.                                    *)
(*                                                                         *)
(* Values that the code holds as floats are held exactly, as integers over *)
(* a common denominator (den): a mean of k <= 4 integers is a multiple of  *)
(* 1/12.  A z-score comparison is invariant under that scaling.            *)
(***************************************************************************)
EXTENDS Integers, Sequences, FiniteSets, TLC

VARIABLES
    notebook,        \* which notebook's cells are being run
    pc,              \* position in the notebook's cell sequence
    data,            \* the level / bpm column before injection
    odata,           \* the level / bpm column the detection cell works on (odata / hr)
    den,             \* common denominator of the values of odata
    random_indices,  \* np.random.randint(0, len(data), size=2)
    threshold,       \* the z-score threshold form parameter
    cx,              \* list(odata["level"].values) taken by the last cleaning run
    cx_den,          \* common denominator of the values of cx
    lcs,             \* indices flagged by the last detection run
    runs,            \* number of times the detect-and-clean cell has run
    \* smart-scale outlier cells (withings_body_plus)
    df_outlier,          \* the 'Weight (kg)' column of df_outlier, in 0.01 kg
    df_den,              \* common denominator of the values of df_outlier
    wt_list,             \* df_outlier['Weight (kg)'].tolist()
    wt_outlier_indices,  \* indices whose slope z-score is >= 6 or <= -6
    printed,             \* indices reported by the 'Replacing ...' prints
    \* non-adherence cells
    block_level,             \* "day" or "week"
    adherence_percent,       \* the slider value, in hundredths
    nonadherence_percent,    \* withings_body_plus: the slider value, in hundredths
    detect_adherence_only,   \* withings_body_plus: the checkbox
    idxes,                   \* np.random.choice(...) (remove, in polar_h10)
    adhered_data,            \* the list AdherenceSimulator returns / df_adherence rows
    adhered_sessions,        \* polar_h10: adhered_data, date -> heart_rates
    \* withings_scanwatch (and withings_sleep) non-adherence cell
    use_JSON,                \* the export form parameter
    hr_df_datetime,          \* type of the values of hr_df['datetime']
    hr_nonadherence_percent, \* the slider value, in hundredths
    list_indices,            \* remove_dates: the indices collected for removal
    hr_num_blocks_to_keep,   \* the list remove_dates returned
    hrs_adherence,           \* the dates of the rows of hrs_adherence
    \* abbott_freestyle_libre_1: flagging cell and statistical summary cells
    continuous,      \* the points [x, y, interpolated]; x in hours, in time order
    start_date,      \* form parameter, as a day number
    days,            \* form parameter
    dta,             \* the list the flagging cell builds
    frame_columns,   \* data.columns of the frame built from continuous
    time_of_day,     \* the "Time of Day" column, once assigned
    differ_groups,   \* the groups f and s that differ(df) hands to ttest_ind
    \* cells that are run again
    lunch,            \* my_fitness_pal: the list rebound by lunch = AdherenceSimulator(lunch)
    filtered_sleeps,  \* withings_scanwatch: 'Median heart rate' of filtered_sleeps
    stage_runs,       \* number of times the cell has run
    \* seeded cells (fitbit_charge_6, garmin_fenix_7s)
    np_state,              \* state of numpy's global generator
    py_state,              \* state of the generator of Python's random module
    random_seeded,         \* random.seed has run and nothing was drawn since
    selected_dates,        \* fitbit_charge_6: the dates np.random.choice picked
    intervals_to_nullify,  \* fitbit_charge_6: the (start, end) pairs
    indices_to_remove,     \* garmin_fenix_7s: hr_dates.sample(...).index
    cell_runs,             \* number of cells run again after the first pass
    observed,              \* the runs made from a fresh seed: cell, seed, input, output
    \* dexcom_g6_pro: the synthetic series
    end_date,        \* form parameter, as a day number (start_date is the other)
    df,              \* the frame: columns datetime (in minutes) and Time of Day
    \* the exception that ended the last cell run
    raised, \* "none", or the name of the exception the cell raised
    \* withings_scanwatch / withings_sleep: the multivariate-normal cleaning cell
    is_outlier,  \* outlier = model.pdf(data).reshape(-1) < threshold, one flag per row
    new_data, \* the copy of data the loop deletes rows from
    \* withings notebooks: the start/stop cell
    is_using,  \* the is_using column of the detection frame
    start_stops, \* the list of (start, stop) timestamps
    \* polar_h10: the detection cell
    is_wearing, \* one 0/1 entry per date of datelist
    \* fitbit_charge_6: the non-adherence frame
    non_adherence_df  \* the frame the cells 335-349 build, columns datetime and heart_rate

cleanVars == <<odata, den, random_indices, threshold, cx, cx_den, lcs, runs>>

scaleVars == <<df_outlier, df_den, wt_list, wt_outlier_indices, printed>>

adhVars ==
    <<block_level, adherence_percent, nonadherence_percent, detect_adherence_only,
      idxes, adhered_data, adhered_sessions>>

wVars ==
    <<use_JSON, hr_df_datetime, hr_nonadherence_percent, list_indices,
      hr_num_blocks_to_keep, hrs_adherence>>

\* the variables of the cells modelled after the first three groups
abVars ==
    <<continuous, start_date, days, dta, frame_columns, time_of_day, differ_groups>>

retryVars == <<lunch, filtered_sleeps, stage_runs>>

seedVars ==
    <<np_state, py_state, random_seeded, selected_dates, intervals_to_nullify,
      indices_to_remove, cell_runs, observed>>

synthVars == <<end_date, df>>

errVars == <<raised>>

mvnVars == <<is_outlier, new_data>>

regVars == <<is_using, start_stops>>

polVars == <<is_wearing>>

fitVars == <<non_adherence_df>>

lateVars == <<wVars, abVars, retryVars, seedVars, synthVars, errVars, mvnVars, regVars, polVars, fitVars>>

vars == <<notebook, pc, data, cleanVars, scaleVars, adhVars, lateVars>>

-----------------------------------------------------------------------------
(* Bounds of the model. *)

\* longest short series drawn with arbitrary levels
MaxShort == 3

\* length of the long series (flat base, one optional dip)
LongLen == 36

\* levels of the base series (two of the generator's base keypoints)
Levels == {100, 130}

\* thresholds the form parameter is set to
Thresholds == {1, 2, 3}

-----------------------------------------------------------------------------
(* Generic helpers. *)

\* s[lo] + ... + s[hi], summed by halves
RECURSIVE SumRange(_, _, _)
SumRange(s, lo, hi) ==
    IF lo > hi THEN 0
    ELSE IF lo = hi THEN s[lo]
    ELSE SumRange(s, lo, (lo + hi) \div 2) + SumRange(s, (lo + hi) \div 2 + 1, hi)

Sum(s) == SumRange(s, 1, Len(s))

Abs(x) == IF x < 0 THEN -x ELSE x

RECURSIVE GCD(_, _)
GCD(a, b) == IF b = 0 THEN Abs(a) ELSE GCD(b, a % Abs(b))

\* greatest common divisor of s[lo], ..., s[hi], taken by halves
RECURSIVE GCDRange(_, _, _)
GCDRange(s, lo, hi) ==
    IF lo > hi THEN 0
    ELSE IF lo = hi THEN Abs(s[lo])
    ELSE GCD(GCDRange(s, lo, (lo + hi) \div 2), GCDRange(s, (lo + hi) \div 2 + 1, hi))

GCDSeq(s) == GCDRange(s, 1, Len(s))

Range(s) == {s[i] : i \in 1..Len(s)}

Min(a, b) == IF a < b THEN a ELSE b

Max(a, b) == IF a > b THEN a ELSE b

\* Python's s[a:b] on a list (negative bounds count from the end, bounds are clamped)
PySlice(s, a, b) ==
    LET n     == Len(s)
        start == IF a < 0 THEN Max(a + n, 0) ELSE Min(a, n)
        stop  == IF b < 0 THEN Max(b + n, 0) ELSE Min(b, n)
    IN  IF start < stop THEN SubSeq(s, start + 1, stop) ELSE <<>>

\* mutant of InsertRow: the row at r is overwritten instead of a row being inserted
InsertRow_Overwrites(s, r, v) == PySlice(s, 0, r) \o <<v>> \o PySlice(s, r + 1, Len(s))

\* pd.concat([s.iloc[:r], row, s.iloc[r:]], ignore_index=True)
InsertRow(s, r, v) == PySlice(s, 0, r) \o <<v>> \o PySlice(s, r, Len(s))

-----------------------------------------------------------------------------
(* z-score detection: np.abs(stats.zscore(nx)) > threshold.                *)
(* With n = len(s) and d_i = n*s_i - sum(s), zscore_i = d_i*sqrt(n) /      *)
(* sqrt(sum_j d_j^2) (population standard deviation, ddof = 0), so         *)
(* |zscore_i| > t  <=>  n*d_i^2 > t^2 * sum_j d_j^2.  The common factor of *)
(* the d_j is cancelled first.  A constant series has standard deviation 0 *)
(* and every z-score NaN, which compares False.                            *)

Deviations(s) == LET total == Sum(s) IN [i \in 1..Len(s) |-> Len(s) * s[i] - total]

\* sum of the squares of ds, each divided by g first
SumSq(ds, g) == Sum([j \in 1..Len(ds) |-> (ds[j] \div g) * (ds[j] \div g)])

\* odata.index[odata['z'] > threshold].tolist(), as a set of Python indices
ZFlagged(s, t) ==
    LET ds == Deviations(s)
        g  == GCDSeq(ds)
    IN  IF g = 0 THEN {}
        ELSE LET bound == t * t * SumSq(ds, g)
             IN  {i \in 0..(Len(s) - 1) :
                     Len(s) * (ds[i + 1] \div g) * (ds[i + 1] \div g) > bound}

-----------------------------------------------------------------------------
(* Neighbour imputation. *)

\* vals = cx[idx-3:idx-2]+cx[idx-2:idx-1]+cx[idx+1:idx+2]+cx[idx+2:idx+3]
vals(c, idx) ==
    PySlice(c, idx - 3, idx - 2) \o PySlice(c, idx - 2, idx - 1)
        \o PySlice(c, idx + 1, idx + 2) \o PySlice(c, idx + 2, idx + 3)

\* mutant of mean_val: np.sum(vals) in place of np.mean(vals)
mean_val_Sum(v) == 12 * Sum(v)

\* np.mean(vals), as a numerator over the denominator 12
mean_val(v) == (12 \div Len(v)) * Sum(v)

\* mutant of CleanedLevels: the loop runs over odata.index, not over the flagged rows
CleanedLevels_EveryRow(c, flagged) ==
    [i \in 1..Len(c) |-> mean_val(vals(c, i - 1))]

\* the level column after the imputation loop, over the denominator 12 * den
CleanedLevels(c, flagged) ==
    [i \in 1..Len(c) |->
        IF (i - 1) \in flagged THEN mean_val(vals(c, i - 1)) ELSE 12 * c[i]]

-----------------------------------------------------------------------------
(* Injection. *)

\* the outliers frame: 'level': [240, 20]
outliers == <<240, 20>>

\* the series after the insertion loop
Injected(nb, d, ri) ==
    IF nb = "abbott"
    THEN \* odata = pd.concat([data.iloc[:r], nrow, data.iloc[r:]]): each pass starts from data
         InsertRow(d, ri[2], outliers[2])
    ELSE \* hr = pd.concat([hr.iloc[:r], nrow, hr.iloc[r:]]): each pass extends hr
         InsertRow(InsertRow(d, ri[1], outliers[1]), ri[2], outliers[2])

-----------------------------------------------------------------------------
(* Input series. *)

ShortSeries == UNION {[1..n -> Levels] : n \in 1..MaxShort}

\* flat series at one base level, optionally with one point at another level
LongSeries ==
    {[i \in 1..LongLen |-> b] : b \in Levels}
    \cup {[i \in 1..LongLen |-> IF i = p THEN v ELSE b] :
            b \in Levels, v \in Levels, p \in {3, LongLen \div 2}}

\* the variables of the cells a notebook run does not execute
IdleClean ==
    /\ odata = <<>>
    /\ den = 1
    /\ random_indices = <<0, 0>>
    /\ threshold = 3
    /\ cx = <<>>
    /\ cx_den = 1
    /\ lcs = {}
    /\ runs = 0

IdleScale ==
    /\ df_outlier = <<>>
    /\ df_den = 1
    /\ wt_list = <<>>
    /\ wt_outlier_indices = {}
    /\ printed = <<>>

IdleAdh ==
    /\ block_level = "day"
    /\ adherence_percent = 100
    /\ nonadherence_percent = 0
    /\ detect_adherence_only = TRUE
    /\ idxes = {}
    /\ adhered_data = <<>>
    /\ adhered_sessions = <<>>

IdleW ==
    /\ use_JSON = TRUE
    /\ hr_df_datetime = "str"
    /\ hr_nonadherence_percent = 0
    /\ list_indices = {}
    /\ hr_num_blocks_to_keep = <<>>
    /\ hrs_adherence = <<>>

IdleAb ==
    /\ continuous = <<>>
    /\ start_date = 0
    /\ days = 0
    /\ dta = <<>>
    /\ frame_columns = {}
    /\ time_of_day = <<>>
    /\ differ_groups = <<>>

IdleRetry ==
    /\ lunch = <<>>
    /\ filtered_sleeps = <<>>
    /\ stage_runs = 0

IdleSeed ==
    /\ np_state = 0
    /\ py_state = 0
    /\ random_seeded = FALSE
    /\ selected_dates = <<>>
    /\ intervals_to_nullify = <<>>
    /\ indices_to_remove = <<>>
    /\ cell_runs = 0
    /\ observed = {}

IdleSynth ==
    /\ end_date = 0
    /\ df = [datetime |-> <<>>, time_of_day |-> <<>>]

IdleErr ==
    /\ raised = "none"

IdleMvn ==
    /\ is_outlier = <<>>
    /\ new_data = <<>>

IdleReg ==
    /\ is_using = <<>>
    /\ start_stops = <<>>

IdlePol ==
    /\ is_wearing = <<>>

IdleFit ==
    /\ non_adherence_df = [datetime |-> <<>>, heart_rate |-> <<>>]

IdleLate == IdleW /\ IdleAb /\ IdleRetry /\ IdleSeed /\ IdleSynth /\ IdleErr /\ IdleMvn /\ IdleReg /\ IdlePol /\ IdleFit

InitClean ==
    /\ notebook \in {"abbott", "polar_h10"}
    /\ pc = "inject"
    /\ data \in ShortSeries \cup LongSeries
    /\ odata = data
    /\ den = 1
    /\ random_indices = <<0, 0>>
    /\ threshold \in Thresholds
    /\ cx = <<>>
    /\ cx_den = 1
    /\ lcs = {}
    /\ runs = 0
    /\ IdleScale
    /\ IdleAdh
    /\ IdleLate

\* the injection cell
Inject ==
    /\ pc = "inject"
    /\ \E r0 \in 0..(Len(data) - 1), r1 \in 0..(Len(data) - 1) :
          /\ random_indices' = <<r0, r1>>
          /\ odata' = Injected(notebook, data, <<r0, r1>>)
    /\ pc' = "detect"
    /\ UNCHANGED <<notebook, data, den, threshold, cx, cx_den, lcs, runs>>
    /\ UNCHANGED <<scaleVars, adhVars>>
    /\ UNCHANGED lateVars

\* the detection and cleaning cell (run once, and run again on its own output)
DetectAndClean ==
    /\ pc = "detect"
    /\ runs < 2
    /\ cx' = odata
    /\ cx_den' = den
    /\ lcs' = ZFlagged(odata, threshold)
    /\ odata' = CleanedLevels(odata, lcs')
    /\ den' = 12 * den
    /\ runs' = runs + 1
    /\ UNCHANGED <<notebook, pc, data, random_indices, threshold>>
    /\ UNCHANGED <<scaleVars, adhVars>>
    /\ UNCHANGED lateVars

NextClean == Inject \/ DetectAndClean

SpecClean == InitClean /\ [][NextClean]_vars

-----------------------------------------------------------------------------
(* Smart-scale slope outliers and imputation (withings_body_plus).         *)
(* Weights are held in units of 0.01 kg.                                   *)

\* number of daily weights in df before the two outliers are added
WtLen == 73

\* weight of the flat base series, in 0.01 kg
WtBases == {7000, 7250}

\* new_data1 and new_data2: 'Weight (kg)': 155.56 and 68.78
new_weights == <<15556, 6878>>

\* Python's s[i] on a list (a negative index counts from the end)
PyIndex(s, i) == IF i < 0 THEN s[i + Len(s) + 1] ELSE s[i + 1]

\* the smallest element of a non-empty set of integers
SetMin(S) == CHOOSE x \in S : \A y \in S : x <= y

\* the elements of a set of integers in ascending order
RECURSIVE Ascending(_)
Ascending(S) == IF S = {} THEN <<>> ELSE <<SetMin(S)>> \o Ascending(S \ {SetMin(S)})

\* wt_slopes = [(wt_list[i+1] - wt_list[i]) for i in range(len(wt_list)-1)]
wt_slopes(w) == [i \in 1..(Len(w) - 1) |-> w[i + 1] - w[i]]

\* [i for i, z in enumerate(wt_z_scores) if z >= 6 or z <= -6], where
\* wt_z_scores = (x - mu) / sigma with norm.fit's mean and (ddof = 0) deviation:
\* |z_i| >= 6  <=>  n * d_i^2 >= 36 * sum_j d_j^2
SlopeOutliers(w) ==
    LET s  == wt_slopes(w)
        ds == Deviations(s)
        g  == GCDSeq(ds)
    IN  IF g = 0 THEN {}
        ELSE LET bound == 36 * SumSq(ds, g)
             IN  {i \in 0..(Len(s) - 1) :
                     Len(s) * (ds[i + 1] \div g) * (ds[i + 1] \div g) >= bound}

\* df_outlier.iloc[outlier, ...] = new_mean / 3, and the two prints
AssignMean(st, outlier, new_mean) ==
    [col |-> [st.col EXCEPT ![outlier + 1] = new_mean],
     printed |-> Append(st.printed, outlier)]

\* the imputation loop from its k-th outlier on; st.col is the weight column
\* over the denominator 3, skip is skip_to_outlier
RECURSIVE ImputeLoop(_, _, _, _, _, _)
ImputeLoop(w, n, outl, k, skip, st) ==
    IF k > Len(outl) THEN st
    ELSE LET outlier == outl[k]
             orig_val == PyIndex(w, outlier)
         IN  IF outlier = 0
             THEN ImputeLoop(w, n, outl, k + 1, skip,
                     AssignMean(st, outlier,
                         orig_val + PyIndex(w, outlier + 1) + PyIndex(w, outlier + 2)))
             ELSE IF outlier = n - 1
             THEN ImputeLoop(w, n, outl, k + 1, skip,
                     AssignMean(st, outlier,
                         orig_val + PyIndex(w, outlier - 1) + PyIndex(w, outlier - 2)))
             ELSE IF ~skip
             THEN ImputeLoop(w, n, outl, k + 1, TRUE, st)
             ELSE ImputeLoop(w, n, outl, k + 1, FALSE,
                     AssignMean(st, outlier,
                         orig_val + PyIndex(w, outlier - 1) + PyIndex(w, outlier - 2)))

\* the whole loop over wt_outlier_indices, on the column col (len(df_outlier) rows)
Imputed(w, col, outl) ==
    ImputeLoop(w, Len(col), Ascending(outl), 1, FALSE,
               [col |-> [i \in 1..Len(col) |-> 3 * col[i]], printed |-> <<>>])

InitScale ==
    /\ notebook = "withings_body_plus"
    /\ pc = "scale_inject"
    /\ data \in {[i \in 1..WtLen |-> b] : b \in WtBases}
    /\ IdleClean
    /\ IdleScale
    /\ IdleAdh
    /\ IdleLate

\* the injection cell: the two rows are appended and the frame is sorted by
\* date; p rows are dated before new_data1 and gap rows between the two
ScaleInject ==
    /\ pc = "scale_inject"
    /\ \E p \in 1..(Len(data) - 1), gap \in {0, 1} :
          /\ p + gap <= Len(data) - 1
          /\ df_outlier' =
                InsertRow(InsertRow(data, p, new_weights[1]), p + 1 + gap, new_weights[2])
    /\ pc' = "scale_slopes"
    /\ UNCHANGED <<notebook, data, df_den, wt_list, wt_outlier_indices, printed>>
    /\ UNCHANGED <<cleanVars, adhVars>>
    /\ UNCHANGED lateVars

\* the slope and z-score cell
ScaleSlopes ==
    /\ pc = "scale_slopes"
    /\ wt_list' = df_outlier
    /\ pc' = "scale_impute"
    /\ UNCHANGED <<notebook, data, df_outlier, df_den, wt_outlier_indices, printed>>
    /\ UNCHANGED <<cleanVars, adhVars>>
    /\ UNCHANGED lateVars

\* the imputation cell
ScaleImpute ==
    /\ pc = "scale_impute"
    /\ wt_outlier_indices' = SlopeOutliers(wt_list)
    /\ df_outlier' = Imputed(wt_list, df_outlier, wt_outlier_indices').col
    /\ printed' = Imputed(wt_list, df_outlier, wt_outlier_indices').printed
    /\ df_den' = 3 * df_den
    /\ pc' = "scale_done"
    /\ UNCHANGED <<notebook, data, wt_list>>
    /\ UNCHANGED <<cleanVars, adhVars>>
    /\ UNCHANGED lateVars

NextScale == ScaleInject \/ ScaleSlopes \/ ScaleImpute

SpecScale == InitScale /\ [][NextScale]_vars

-----------------------------------------------------------------------------
(* Non-adherence simulation.                                               *)
(* strava (and my_fitness_pal, cronometer, polar_vantage): AdherenceSimulator *)
(* polar_h10: sessions removed or padded with zeros                        *)
(* withings_body_plus: rows dropped                                        *)
(* The input data is the list of its points, numbered 1..len(data); in     *)
(* polar_h10 these are the dates that have a session.                      *)

\* longest input of AdherenceSimulator and of the withings_body_plus cell
MaxDays == 15

\* largest number of sessions in polar_h10
MaxSessions == 8

\* length of the quarter-long series given to AdherenceSimulator at week level
QuarterDays == 90

\* slider values, in hundredths (0.25, 0.5 and 0.75 are exact in binary, and
\* 0.89 times a count below 100 is no integer, so int() of the float product
\* is the floor of the exact product)
Percents == {0, 25, 50, 75, 89, 100}

\* heart_rates of every session before the simulation
session_heart_rates == <<82, 97>>

\* list(np.zeros(100))
zeros == [i \in 1..100 |-> 0]

\* block_length
block_length(level) == IF level = "day" THEN 1 ELSE 7

\* int(percent * num_blocks)
IntOfProduct(pct, count) ==
    IF pct * count >= 0 THEN (pct * count) \div 100
    ELSE -((-(pct * count)) \div 100)

\* subsets of S with k elements: np.random.choice(S, replace=False, size=k)
Choices(S, k) == {c \in SUBSET S : Cardinality(c) = k}

\* the loop of AdherenceSimulator from index i on:
\*   for i in range(len(data)):
\*     if i in idxes:
\*       for j in range(i, i+1): adhered_data.append(data[j])
RECURSIVE AdheredFrom(_, _, _)
AdheredFrom(d, chosen, i) ==
    IF i >= Len(d) THEN <<>>
    ELSE (IF i \in chosen THEN <<d[i + 1]>> ELSE <<>>) \o AdheredFrom(d, chosen, i + 1)

\* mutant of AdheredData: the append also runs outside the test "if i in idxes"
AdheredData_AppendsEveryPoint(d, chosen) == d \o AdheredFrom(d, chosen, 0)

AdheredData(d, chosen) == AdheredFrom(d, chosen, 0)

\* df_adherence.drop(idxes.tolist()) on a frame with index 0..len-1
DropRows(d, dropped) == AdheredFrom(d, (0..(Len(d) - 1)) \ dropped, 0)

\* mutant of PolarAdhered: no zeros are appended to the sessions that stay
PolarAdhered_WithoutZeros(d, removed, popped) ==
    [key \in Range(d) \ popped |-> session_heart_rates]

\* polar_h10's loop over remove: popped sessions are deleted, the others of
\* remove get 100 zeros appended to heart_rates
PolarAdhered(d, removed, popped) ==
    [key \in Range(d) \ popped |->
        IF key \in removed THEN session_heart_rates \o zeros ELSE session_heart_rates]

\* the dates of the rows of hr_df, in time order: n dates, two measurements
\* on each
RowDates(n) == [i \in 1..(2 * n) |-> (i + 1) \div 2]

\* hrs_adherence['datetime'].dt.date.unique()
RECURSIVE unique(_)
unique(s) ==
    IF s = <<>> THEN <<>>
    ELSE LET front == unique(SubSeq(s, 1, Len(s) - 1))
         IN  IF s[Len(s)] \in Range(front) THEN front ELSE Append(front, s[Len(s)])

\* sorted(dates)
RECURSIVE sorted(_)
sorted(s) ==
    IF s = <<>> THEN <<>>
    ELSE LET m    == SetMin(Range(s))
             at   == CHOOSE i \in 1..Len(s) : s[i] = m
             rest == [i \in 1..(Len(s) - 1) |-> IF i < at THEN s[i] ELSE s[i + 1]]
         IN  <<m>> \o sorted(rest)

\* step_size = 7 if by_week == "week" else 1
step_size(by_week) == IF by_week = "week" THEN 7 ELSE 1

\* int(int(len_dates_sorted / step_size) * percent)
num_dates_to_remove(dates, percent, by_week) ==
    IntOfProduct(percent, Len(dates) \div step_size(by_week))

\* the sets of values random_index can take over the iterations of the while
\* loop: each is random.randint(0, len_dates_sorted), both ends included, and
\* a value may be drawn more than once
RandomIndexSets(len_dates_sorted, count) ==
    IF count <= 0 THEN {{}}
    ELSE UNION {Choices(0..len_dates_sorted, j) :
                    j \in 1..Min(count, len_dates_sorted + 1)}

\* list_indices after the while loop, for the drawn values of random_index
ListIndices(drawn, by_week) ==
    UNION {{i \in random_index..(random_index + step_size(by_week) - 1) : TRUE} :
              random_index \in drawn}

\* [date for i, date in enumerate(dates_sorted) if i not in list_indices]
new_dates_sorted(dates_sorted, indices) ==
    AdheredFrom(dates_sorted, (0..(Len(dates_sorted) - 1)) \ indices, 0)

\* hrs_adherence.drop(hrs_adherence[hr_date_mask].index), with
\* hr_date_mask = hrs_adherence['datetime'].dt.date.isin(dates)
DropMasked(rows, dates) ==
    DropRows(rows, {i \in 0..(Len(rows) - 1) : rows[i + 1] \in Range(dates)})

InitAdh ==
    /\ notebook \in {"strava", "polar_h10", "withings_body_plus", "withings_scanwatch"}
    /\ pc = "simulate"
    /\ block_level \in {"day", "week"}
    /\ \E n \in (0..MaxDays) \cup {QuarterDays} :
          /\ notebook = "polar_h10" => n <= MaxSessions
          /\ (notebook = "withings_scanwatch" /\ block_level = "day") => n <= MaxSessions
          /\ n > MaxDays => (notebook = "strava" /\ block_level = "week")
          /\ data = IF notebook = "withings_scanwatch"
                    THEN RowDates(n)
                    ELSE [i \in 1..n |-> i]
    /\ IF notebook = "withings_body_plus"
       THEN /\ adherence_percent = 100
            /\ nonadherence_percent \in Percents
            /\ detect_adherence_only \in BOOLEAN
       ELSE IF notebook = "withings_scanwatch"
       THEN /\ adherence_percent = 100
            /\ nonadherence_percent = 0
            /\ detect_adherence_only \in BOOLEAN
       ELSE /\ adherence_percent \in Percents
            /\ nonadherence_percent = 0
            /\ detect_adherence_only = TRUE
    /\ IF notebook = "withings_scanwatch"
       THEN /\ use_JSON \in BOOLEAN
            \* the export cell leaves str(x) in the column when use_JSON is set;
            \* otherwise the column is as the device library returned it
            /\ hr_df_datetime \in (IF use_JSON THEN {"str"} ELSE {"str", "Timestamp"})
            /\ hr_nonadherence_percent \in Percents
            /\ list_indices = {}
            /\ hr_num_blocks_to_keep = <<>>
            /\ hrs_adherence = <<>>
       ELSE IdleW
    /\ IdleAb
    /\ IdleRetry
    /\ IdleSeed
    /\ IdleSynth
    /\ idxes = {}
    /\ adhered_data = <<>>
    /\ adhered_sessions = <<>>
    /\ IdleClean
    /\ IdleScale
    /\ IdleErr
    /\ IdleMvn
    /\ IdleReg
    /\ IdlePol
    /\ IdleFit

\* strava: dataset = AdherenceSimulator(dataset)
AdherenceSimulator ==
    /\ pc = "simulate"
    /\ notebook = "strava"
    /\ LET num_blocks         == Len(data) \div block_length(block_level)
           num_blocks_to_keep == IntOfProduct(adherence_percent, num_blocks)
       IN  \* np.random.choice(..., replace=False, size=...) raises ValueError
           \* for a negative size and for a size above the population
           IF num_blocks_to_keep < 0 \/ num_blocks_to_keep > num_blocks
           THEN /\ raised' = "ValueError"
                /\ UNCHANGED <<idxes, adhered_data>>
           ELSE /\ \E chosen \in Choices(0..(num_blocks - 1), num_blocks_to_keep) :
                      /\ idxes' = chosen
                      /\ adhered_data' = AdheredData(data, chosen)
                /\ raised' = "none"
    /\ pc' = "done"
    /\ UNCHANGED <<notebook, data, block_level, adherence_percent,
                   nonadherence_percent, detect_adherence_only, adhered_sessions>>
    /\ UNCHANGED <<cleanVars, scaleVars>>
    /\ UNCHANGED <<wVars, abVars, retryVars, seedVars, synthVars, mvnVars, regVars, polVars,
                   fitVars>>

\* polar_h10: the non-adherence cell
PolarNonAdherence ==
    /\ pc = "simulate"
    /\ notebook = "polar_h10"
    /\ LET num_blocks           == Len(data) \div block_length(block_level)
           num_blocks_to_remove == IntOfProduct(100 - adherence_percent, num_blocks)
       IN  \E removed \in Choices(Range(data), num_blocks_to_remove) :
              \E popped \in SUBSET removed :
                 /\ idxes' = removed
                 /\ adhered_sessions' = PolarAdhered(data, removed, popped)
    /\ pc' = "done"
    /\ UNCHANGED <<notebook, data, block_level, adherence_percent,
                   nonadherence_percent, detect_adherence_only, adhered_data>>
    /\ UNCHANGED <<cleanVars, scaleVars>>
    /\ UNCHANGED lateVars

\* withings_body_plus: the non-adherence cell
ScaleNonAdherence ==
    /\ pc = "simulate"
    /\ notebook = "withings_body_plus"
    /\ IF detect_adherence_only
       THEN /\ adhered_data' = data
            /\ idxes' = idxes
       ELSE LET num_blocks         == Len(data)
                num_blocks_to_keep == IntOfProduct(nonadherence_percent, num_blocks)
            IN  \E chosen \in Choices(0..(num_blocks - 1), num_blocks_to_keep) :
                   /\ idxes' = chosen
                   /\ adhered_data' = DropRows(data, chosen)
    /\ pc' = "done"
    /\ UNCHANGED <<notebook, data, block_level, adherence_percent,
                   nonadherence_percent, detect_adherence_only, adhered_sessions>>
    /\ UNCHANGED <<cleanVars, scaleVars>>
    /\ UNCHANGED lateVars

\* withings_scanwatch (and withings_sleep): the non-adherence cell, heart-rate
\* part
WithingsNonAdherence ==
    /\ pc = "simulate"
    /\ notebook = "withings_scanwatch"
    \* hrs_adherence = hr_df; hrs_adherence['datetime'] = pd.to_datetime(...)
    /\ hr_df_datetime' = "Timestamp"
    /\ IF detect_adherence_only
       THEN /\ hrs_adherence' = data
            /\ UNCHANGED <<list_indices, hr_num_blocks_to_keep>>
       ELSE LET hr_unique_dates == unique(data)
                dates_sorted    == sorted(hr_unique_dates)
                count == num_dates_to_remove(dates_sorted, hr_nonadherence_percent,
                                             block_level)
            IN  \E drawn \in RandomIndexSets(Len(dates_sorted), count) :
                   /\ list_indices' = ListIndices(drawn, block_level)
                   /\ hr_num_blocks_to_keep' =
                          new_dates_sorted(dates_sorted, list_indices')
                   /\ hrs_adherence' = DropMasked(data, hr_num_blocks_to_keep')
    /\ pc' = "done"
    /\ UNCHANGED <<notebook, data, use_JSON, hr_nonadherence_percent>>
    /\ UNCHANGED <<cleanVars, scaleVars, adhVars, abVars, retryVars, seedVars, synthVars, errVars, mvnVars, regVars, polVars, fitVars>>

NextAdh ==
    \/ AdherenceSimulator
    \/ PolarNonAdherence
    \/ ScaleNonAdherence
    \/ WithingsNonAdherence

SpecAdh == InitAdh /\ [][NextAdh]_vars

-----------------------------------------------------------------------------
(* abbott_freestyle_libre_1: the flagging non-adherence cell and the       *)
(* statistical summary cells (day/night split, t-test across a date).      *)
(* Times are in hours since midnight of day 0; the points of continuous    *)
(* are SampleHours apart.                                                  *)

\* largest number of points of continuous
MaxPoints == 7

\* hours between two points of continuous
SampleHours == 5

\* the points of continuous: n readings in time order, at most one of them
\* interpolated by the device
ContinuousSeries ==
    UNION {{[i \in 1..n |-> [x |-> SampleHours * (i - 1),
                              y |-> IF i % 2 = 1 THEN 100 ELSE 130,
                              interpolated |-> (i = at)]] : at \in 0..n} :
              n \in 0..MaxPoints}

\* mutant of Marked: the draw's outcome is stored whatever the flag was
Marked_StoresDraw(elem, hit) == [elem EXCEPT !.interpolated = hit]

\* dta.append(copy.deepcopy(elem)); if <draw> > adherence_percent:
\* dta[-1]["interpolated"] = True
Marked(elem, hit) == [elem EXCEPT !.interpolated = IF hit THEN TRUE ELSE @]

\* the loop "for elem in continuous" from the i-th point on; hits holds the
\* positions whose draw np.random.uniform(0, 1) exceeds adherence_percent
RECURSIVE DtaFrom(_, _, _, _, _)
DtaFrom(c, start, end, hits, i) ==
    IF i > Len(c) THEN <<>>
    ELSE IF c[i].x < start THEN DtaFrom(c, start, end, hits, i + 1)
    ELSE IF c[i].x > end THEN <<>>
    ELSE <<Marked(c[i], i \in hits)>> \o DtaFrom(c, start, end, hits, i + 1)

\* df["Time of Day"]: dayStart = time(9, 0, 0) is not before dayEnd =
\* time(0, 0, 0), so mask = (allTimes >= dayStart) | (allTimes <= dayEnd)
TimeOfDay(x) == IF (x % 24 >= 9) \/ (x % 24 <= 0) THEN "Day" ELSE "Night"

InitAbbott ==
    /\ notebook = "abbott"
    /\ pc = "flag"
    /\ continuous \in ContinuousSeries
    /\ data = [i \in 1..Len(continuous) |-> continuous[i].y]
    /\ start_date \in 0..1
    /\ days \in 0..1
    /\ dta = <<>>
    /\ frame_columns = {"time", "level", "interpolated"}
    /\ time_of_day = <<>>
    /\ differ_groups = <<>>
    /\ IdleClean
    /\ IdleScale
    /\ block_level = "day"
    /\ adherence_percent \in Percents
    /\ nonadherence_percent = 0
    /\ detect_adherence_only = TRUE
    /\ idxes = {}
    /\ adhered_data = <<>>
    /\ adhered_sessions = <<>>
    /\ IdleW
    /\ IdleRetry
    /\ IdleSeed
    /\ IdleSynth
    /\ IdleErr
    /\ IdleMvn
    /\ IdleReg
    /\ IdlePol
    /\ IdleFit

\* the non-adherence simulation cell (flagging policy)
FlagNonAdherence ==
    /\ pc = "flag"
    /\ LET start == 24 * start_date
           end   == start + 24 * days
       IN  \E hits \in SUBSET {i \in 1..Len(continuous) :
                                 continuous[i].x >= start /\ continuous[i].x <= end} :
              \* a draw from [0, 1) never exceeds 1 and always exceeds a
              \* negative adherence_percent
              /\ adherence_percent >= 100 => hits = {}
              /\ adherence_percent < 0 =>
                     hits = {i \in 1..Len(continuous) :
                                continuous[i].x >= start /\ continuous[i].x <= end}
              /\ dta' = DtaFrom(continuous, start, end, hits, 1)
    /\ pc' = "split"
    /\ UNCHANGED <<notebook, data, continuous, start_date, days, frame_columns,
                   time_of_day, differ_groups>>
    /\ UNCHANGED <<cleanVars, scaleVars, adhVars, wVars, retryVars, seedVars, synthVars, errVars, mvnVars, regVars, polVars, fitVars>>

\* the day/night cell: df = data; df["Time of Day"] = mask, then .map(...)
DayNightSplit ==
    /\ pc = "split"
    /\ frame_columns' = frame_columns \cup {"Time of Day"}
    /\ time_of_day' = [i \in 1..Len(continuous) |-> TimeOfDay(continuous[i].x)]
    /\ pc' = "differ"
    /\ UNCHANGED <<notebook, data, continuous, start_date, days, dta, differ_groups>>
    /\ UNCHANGED <<cleanVars, scaleVars, adhVars, wVars, retryVars, seedVars, synthVars, errVars, mvnVars, regVars, polVars, fitVars>>

\* the t-test cell: split = list(df["time"].str.match(pat).values).index(True),
\* then differ(df) takes the levels before and from split
Differ ==
    /\ pc = "differ"
    /\ \E date_of_change \in {SampleHours * k : k \in 0..MaxPoints} :
          LET matches == {i \in 1..Len(continuous) : continuous[i].x = date_of_change}
          IN  IF matches = {}
              THEN /\ raised' = "ValueError"
                   /\ UNCHANGED differ_groups
              ELSE LET split == SetMin(matches) - 1
                       rows  == Len(data)
                   \* differ(df) makes no check of the sizes of f and s; the
                   \* call ttest_ind(f, s) returns a result (nan for a group
                   \* that is too small) and raises nothing
                   IN  /\ differ_groups' = <<PySlice(data, 0, split),
                                             PySlice(data, split, rows)>>
                       /\ raised' = "none"
    /\ pc' = "done"
    /\ UNCHANGED <<notebook, data, continuous, start_date, days, dta, frame_columns,
                   time_of_day>>
    /\ UNCHANGED <<cleanVars, scaleVars, adhVars, wVars, retryVars, seedVars, synthVars, mvnVars, regVars, polVars, fitVars>>

NextAbbott == FlagNonAdherence \/ DayNightSplit \/ Differ

SpecAbbott == InitAbbott /\ [][NextAbbott]_vars

-----------------------------------------------------------------------------
(* Cells run more than once with the same parameters.                      *)
(* my_fitness_pal: lunch = AdherenceSimulator(lunch)                       *)
(* withings_scanwatch: filtered_sleeps = pd.concat([filtered_sleeps, ...]) *)
(* polar_h10: hr = copy.deepcopy(hr_df), then the two insertions           *)

\* largest number of runs of one cell
MaxReruns == 3

\* outlier['Median heart rate'] = 120
outlier_median_heart_rate == 120

InitRetry ==
    /\ notebook \in {"my_fitness_pal", "withings_scanwatch", "polar_h10"}
    /\ pc = "rerun"
    /\ stage_runs = 0
    /\ IF notebook = "my_fitness_pal"
       THEN /\ \E n \in 0..MaxSessions : lunch = [i \in 1..n |-> i]
            /\ block_level \in {"day", "week"}
            /\ adherence_percent \in Percents
       ELSE /\ lunch = <<>>
            /\ block_level = "day"
            /\ adherence_percent = 100
    /\ IF notebook = "withings_scanwatch"
       THEN \E n \in 0..MaxShort : filtered_sleeps = [i \in 1..n |-> 55 + i]
       ELSE filtered_sleeps = <<>>
    /\ IF notebook = "polar_h10"
       THEN data \in ShortSeries
       ELSE data = <<>>
    /\ IdleClean
    /\ IdleScale
    /\ nonadherence_percent = 0
    /\ detect_adherence_only = TRUE
    /\ idxes = {}
    /\ adhered_data = <<>>
    /\ adhered_sessions = <<>>
    /\ IdleW
    /\ IdleAb
    /\ IdleSeed
    /\ IdleSynth
    /\ IdleErr
    /\ IdleMvn
    /\ IdleReg
    /\ IdlePol
    /\ IdleFit

\* my_fitness_pal: lunch = AdherenceSimulator(lunch)
RerunAdherenceSimulator ==
    /\ notebook = "my_fitness_pal"
    /\ stage_runs < MaxReruns
    /\ LET num_blocks         == Len(lunch) \div block_length(block_level)
           num_blocks_to_keep == IntOfProduct(adherence_percent, num_blocks)
       IN  \E chosen \in Choices(0..(num_blocks - 1), num_blocks_to_keep) :
              /\ idxes' = chosen
              /\ lunch' = AdheredData(lunch, chosen)
    /\ stage_runs' = stage_runs + 1
    /\ UNCHANGED <<notebook, pc, data, filtered_sleeps>>
    /\ UNCHANGED <<block_level, adherence_percent, nonadherence_percent,
                   detect_adherence_only, adhered_data, adhered_sessions>>
    /\ UNCHANGED <<cleanVars, scaleVars, wVars, abVars, seedVars, synthVars, errVars, mvnVars, regVars, polVars, fitVars>>

\* withings_scanwatch: the cell that concatenates outlier_df to filtered_sleeps
RerunInjectSleepOutlier ==
    /\ notebook = "withings_scanwatch"
    /\ stage_runs < MaxReruns
    /\ filtered_sleeps' = filtered_sleeps \o <<outlier_median_heart_rate>>
    /\ stage_runs' = stage_runs + 1
    /\ UNCHANGED <<notebook, pc, data, lunch>>
    /\ UNCHANGED <<cleanVars, scaleVars, adhVars, wVars, abVars, seedVars, synthVars, errVars, mvnVars, regVars, polVars, fitVars>>

\* polar_h10: the injection cell, which starts from a copy of hr_df
RerunInjectHr ==
    /\ notebook = "polar_h10"
    /\ stage_runs < MaxReruns
    /\ \E r0, r1 \in 0..(Len(data) - 1) :
          /\ random_indices' = <<r0, r1>>
          /\ odata' = Injected(notebook, data, random_indices')
    /\ stage_runs' = stage_runs + 1
    /\ UNCHANGED <<notebook, pc, data, lunch, filtered_sleeps>>
    /\ UNCHANGED <<den, threshold, cx, cx_den, lcs, runs>>
    /\ UNCHANGED <<scaleVars, adhVars, wVars, abVars, seedVars, synthVars, errVars, mvnVars,
                   regVars, polVars, fitVars>>

NextRetry == RerunAdherenceSimulator \/ RerunInjectSleepOutlier \/ RerunInjectHr

SpecRetry == InitRetry /\ [][NextRetry]_vars

-----------------------------------------------------------------------------
(* Seeded cells: fitbit_charge_6 (dates and intervals of non-adherence)    *)
(* and garmin_fenix_7s (entries removed).  A generator is a state and a    *)
(* step function: seeding sets the state, a draw reads it and advances it. *)
(* The generators' algorithms are library code; here a generator has       *)
(* Modulus states and steps through all of them.                           *)

\* number of states of a generator
Modulus == 16

\* largest number of dates in the frame
MaxDates == 7

\* largest number of cells run again after the first pass
MaxCellRuns == 3

\* seed_value = 42
seed_value == 42

\* np.random.seed(44)
garmin_seed == 44

\* the generator's state after one draw
NextState(st) == (5 * st + 3) % Modulus

\* the generator's state after k draws
RECURSIVE Advance(_, _)
Advance(st, k) == IF k = 0 THEN st ELSE Advance(NextState(st), k - 1)

\* mutant of Seeded: the call leaves the generator where it was
Seeded_KeepsState(seed, st) == st

\* np.random.seed(seed) / random.seed(seed): the state the call leaves
Seeded(seed, st) == seed % Modulus

\* random.randint(a, b) drawn in state st
randint(st, a, b) == a + (st % (b - a + 1))

\* np.random.choice(s, size=k, replace=False) and Series.sample(k): k draws
\* without replacement, from state st on; out is the picked values, st the
\* state left
RECURSIVE Sample(_, _, _)
Sample(s, k, st) ==
    IF k = 0 THEN [out |-> <<>>, st |-> st]
    ELSE LET at   == 1 + (st % Len(s))
             left == [i \in 1..(Len(s) - 1) |-> IF i < at THEN s[i] ELSE s[i + 1]]
             rest == Sample(left, k - 1, NextState(st))
         IN  [out |-> <<s[at]>> \o rest.out, st |-> rest.st]

\* one (start_time, end_time) pair of create_random_intervals, in seconds,
\* its six draws made from state st on
Interval(date, st) ==
    LET start_hour       == randint(st, 0, 23)
        start_minute     == randint(Advance(st, 1), 0, 59)
        start_second     == randint(Advance(st, 2), 0, 59)
        start_time       == 86400 * date + 3600 * start_hour + 60 * start_minute
                                + start_second
        duration_hours   == randint(Advance(st, 3), 0, 5)
        duration_minutes == randint(Advance(st, 4), 0, 59)
        duration_seconds == randint(Advance(st, 5), 0, 59)
        end_time         == start_time + 3600 * duration_hours + 60 * duration_minutes
                                + duration_seconds
    IN  <<start_time, end_time>>

\* the loop "for _ in range(num_intervals)" from state st on
RECURSIVE IntervalsOfDate(_, _, _)
IntervalsOfDate(date, st, count) ==
    IF count = 0 THEN <<>>
    ELSE <<Interval(date, st)>> \o IntervalsOfDate(date, Advance(st, 6), count - 1)

\* create_random_intervals(date) called in state st
create_random_intervals(date, st) ==
    LET num_intervals == <<1, 2>>[1 + (st % 2)]
    IN  IntervalsOfDate(date, NextState(st), num_intervals)

\* for date in selected_dates: intervals_to_nullify.extend(...)
RECURSIVE IntervalsFor(_, _)
IntervalsFor(dates, st) ==
    IF dates = <<>> THEN [out |-> <<>>, st |-> st]
    ELSE LET intervals == create_random_intervals(Head(dates), st)
             rest      == IntervalsFor(Tail(dates), Advance(st, 1 + 6 * Len(intervals)))
         IN  [out |-> intervals \o rest.out, st |-> rest.st]

InitSeed ==
    /\ notebook \in {"fitbit_charge_6", "garmin_fenix_7s"}
    /\ pc = IF notebook = "fitbit_charge_6" THEN "select" ELSE "remove"
    \* unique_dates (fitbit) / the index of hr_dates, reversed (garmin)
    /\ \E n \in 0..MaxDates :
          data = IF notebook = "fitbit_charge_6" THEN [i \in 1..n |-> i]
                 ELSE [i \in 1..n |-> n - i]
    \* before any seeding the generators are in a state the run cannot know
    /\ np_state \in 0..(Modulus - 1)
    /\ py_state \in (IF notebook = "fitbit_charge_6" THEN 0..(Modulus - 1) ELSE {0})
    /\ random_seeded = FALSE
    /\ selected_dates = <<>>
    /\ intervals_to_nullify = <<>>
    /\ indices_to_remove = <<>>
    /\ cell_runs = 0
    /\ observed = {}
    /\ IdleClean
    /\ IdleScale
    /\ IdleAdh
    /\ IdleW
    /\ IdleAb
    /\ IdleRetry
    /\ IdleSynth
    /\ IdleErr
    /\ IdleMvn
    /\ IdleReg
    /\ IdlePol
    /\ IdleFit

\* fitbit_charge_6 292-296: np.random.seed(seed_value), then np.random.choice
SelectDates ==
    /\ notebook = "fitbit_charge_6"
    /\ pc = "select" \/ (pc = "rerun" /\ cell_runs < MaxCellRuns)
    /\ LET picked == Sample(data, (3 * Len(data)) \div 10, Seeded(seed_value, np_state))
       IN  /\ selected_dates' = picked.out
           /\ np_state' = picked.st
           /\ observed' = observed \cup
                  {[cell |-> "selected_dates", seed |-> seed_value, input |-> data,
                    output |-> picked.out]}
    /\ pc' = IF pc = "select" THEN "seed" ELSE pc
    /\ cell_runs' = IF pc = "rerun" THEN cell_runs + 1 ELSE cell_runs
    /\ UNCHANGED <<notebook, data, py_state, random_seeded, intervals_to_nullify,
                   indices_to_remove>>
    /\ UNCHANGED <<cleanVars, scaleVars, adhVars, wVars, abVars, retryVars, synthVars, errVars, mvnVars, regVars, polVars, fitVars>>

\* fitbit_charge_6 302-320: random.seed(seed_value) and the def
SeedRandom ==
    /\ notebook = "fitbit_charge_6"
    /\ pc = "seed" \/ (pc = "rerun" /\ cell_runs < MaxCellRuns)
    /\ py_state' = Seeded(seed_value, py_state)
    /\ random_seeded' = TRUE
    /\ pc' = IF pc = "seed" THEN "intervals" ELSE pc
    /\ cell_runs' = IF pc = "rerun" THEN cell_runs + 1 ELSE cell_runs
    /\ UNCHANGED <<notebook, data, np_state, selected_dates, intervals_to_nullify,
                   indices_to_remove, observed>>
    /\ UNCHANGED <<cleanVars, scaleVars, adhVars, wVars, abVars, retryVars, synthVars, errVars, mvnVars, regVars, polVars, fitVars>>

\* fitbit_charge_6 323-327: the intervals of every selected date
NullifyIntervals ==
    /\ notebook = "fitbit_charge_6"
    /\ pc = "intervals" \/ (pc = "rerun" /\ cell_runs < MaxCellRuns)
    /\ LET made == IntervalsFor(selected_dates, py_state)
       IN  /\ intervals_to_nullify' = made.out
           /\ py_state' = made.st
           /\ random_seeded' = (random_seeded /\ made.st = py_state)
           /\ observed' =
                  IF random_seeded
                  THEN observed \cup
                          {[cell |-> "intervals_to_nullify", seed |-> seed_value,
                            input |-> selected_dates, output |-> made.out]}
                  ELSE observed
    /\ pc' = IF pc = "intervals" THEN "rerun" ELSE pc
    /\ cell_runs' = IF pc = "rerun" THEN cell_runs + 1 ELSE cell_runs
    /\ UNCHANGED <<notebook, data, np_state, selected_dates, indices_to_remove>>
    /\ UNCHANGED <<cleanVars, scaleVars, adhVars, wVars, abVars, retryVars, synthVars, errVars, mvnVars, regVars, polVars, fitVars>>

\* garmin_fenix_7s 343-348: np.random.seed(44), then hr_dates.sample(...)
RemoveEntries ==
    /\ notebook = "garmin_fenix_7s"
    /\ pc = "remove" \/ (pc = "rerun" /\ cell_runs < MaxCellRuns)
    /\ LET num_entries_to_remove == (4 * Len(data)) \div 10
           picked == Sample(data, num_entries_to_remove, Seeded(garmin_seed, np_state))
       IN  /\ indices_to_remove' = picked.out
           /\ np_state' = picked.st
           /\ observed' = observed \cup
                  {[cell |-> "indices_to_remove", seed |-> garmin_seed, input |-> data,
                    output |-> picked.out]}
    /\ pc' = "rerun"
    /\ cell_runs' = IF pc = "rerun" THEN cell_runs + 1 ELSE cell_runs
    /\ UNCHANGED <<notebook, data, py_state, random_seeded, selected_dates,
                   intervals_to_nullify>>
    /\ UNCHANGED <<cleanVars, scaleVars, adhVars, wVars, abVars, retryVars, synthVars, errVars, mvnVars, regVars, polVars, fitVars>>

NextSeed == SelectDates \/ SeedRandom \/ NullifyIntervals \/ RemoveEntries

SpecSeed == InitSeed /\ [][NextSeed]_vars

-----------------------------------------------------------------------------
(* dexcom_g6_pro: create_synth_df, the synthetic series.  Dates are day    *)
(* numbers counted from 2022-02-16, the form's start_date; datetimes are   *)
(* minutes counted from the start of that day.  The glucose values and the *)
(* rates of change are random draws that do not bear on which rows the     *)
(* frame has; they are left out.                                           *)

\* latest start_date the form is set to
MaxStart == 3

\* start_day = '2022-03-31'
start_day == 43

\* for day_offset in range(12)
synth_days == 12

\* for minute_offset in range(0, 24 * 60, 5)
minute_step == 5

\* missing_start = '2022-04-06' + 14 hours, in minutes
missing_start == 49 * 1440 + 14 * 60

\* missing_end = missing_start + timedelta(minutes=70)
missing_end == missing_start + 70

\* mutant of datetimes: timedelta(days=day_offset) is left out of minute
datetimes_WithoutDayOffset ==
    LET per_day == 1440 \div minute_step
    IN  [i \in 1..(synth_days * per_day) |->
            start_day * 1440 + minute_step * ((i - 1) % per_day)]

\* datetimes after the two loops
datetimes ==
    LET per_day == 1440 \div minute_step
    IN  [i \in 1..(synth_days * per_day) |->
            (start_day + (i - 1) \div per_day) * 1440 + minute_step * ((i - 1) % per_day)]

\* 'Day' if dt.hour in range(8, 20) else 'Night'
SynthTimeOfDay(dt) ==
    LET hour == (dt % 1440) \div 60
    IN  IF hour >= 8 /\ hour < 20 THEN "Day" ELSE "Night"

\* create_synth_df(): the rows strictly between missing_start and missing_end
\* are dropped
create_synth_df ==
    LET Present(dt) == ~(dt > missing_start /\ dt < missing_end)
        kept == SelectSeq(datetimes, Present)
    IN  [datetime |-> kept,
         time_of_day |-> [i \in 1..Len(kept) |-> SynthTimeOfDay(kept[i])]]

InitSynth ==
    /\ notebook = "dexcom_g6_pro"
    /\ pc = "synth"
    /\ data = <<>>
    /\ start_date \in 0..MaxStart
    /\ end_date \in start_date..(start_date + QuarterDays)
    /\ df = [datetime |-> <<>>, time_of_day |-> <<>>]
    /\ continuous = <<>>
    /\ days = 0
    /\ dta = <<>>
    /\ frame_columns = {}
    /\ time_of_day = <<>>
    /\ differ_groups = <<>>
    /\ IdleClean
    /\ IdleScale
    /\ IdleAdh
    /\ IdleW
    /\ IdleRetry
    /\ IdleSeed
    /\ IdleErr
    /\ IdleMvn
    /\ IdleReg
    /\ IdlePol
    /\ IdleFit

\* the cell 232-237 with synthetic = True: df = create_synth_df()
CreateSynthDf ==
    /\ pc = "synth"
    /\ df' = create_synth_df
    /\ pc' = "generated"
    /\ UNCHANGED <<notebook, data, end_date>>
    /\ UNCHANGED <<cleanVars, scaleVars, adhVars, wVars, abVars, retryVars, seedVars, errVars, mvnVars, regVars, polVars, fitVars>>

NextSynth == CreateSynthDf

SpecSynth == InitSynth /\ [][NextSynth]_vars

-----------------------------------------------------------------------------
(* Form parameters outside the range the form offers (SpecParam): the cells
   of strava 340-356, withings_scanwatch 301-330, abbott 218-230 and
   dexcom_g6_pro 232-237 run with a percentage below 0 or above 1, or with a
   range whose end is before its start.  None of the cells validates its
   parameters, so the actions are the ones above. *)

\* percentages, in hundredths, that a form's slider does not offer
OffSlider == {-50, -5, 105, 150}

InitParam ==
    /\ notebook \in {"strava", "withings_scanwatch", "abbott", "dexcom_g6_pro"}
    /\ pc = IF notebook = "abbott" THEN "flag"
            ELSE IF notebook = "dexcom_g6_pro" THEN "synth"
            ELSE "simulate"
    /\ block_level \in (IF notebook \in {"strava", "withings_scanwatch"}
                        THEN {"day", "week"} ELSE {"day"})
    /\ IF notebook = "abbott"
       THEN /\ continuous \in ContinuousSeries
            /\ data = [i \in 1..Len(continuous) |-> continuous[i].y]
            /\ start_date \in 0..1
            /\ days \in -1..1
            /\ adherence_percent \in Percents \cup OffSlider
            /\ adherence_percent \in Percents => days < 0
            /\ frame_columns = {"time", "level", "interpolated"}
            /\ end_date = 0
       ELSE IF notebook = "dexcom_g6_pro"
       THEN /\ continuous = <<>>
            /\ data = <<>>
            /\ start_date \in 1..MaxStart
            /\ end_date \in 0..(start_date - 1)
            /\ days = 0
            /\ adherence_percent = 100
            /\ frame_columns = {}
       ELSE /\ continuous = <<>>
            /\ \E n \in 0..MaxDays :
                  data = IF notebook = "withings_scanwatch"
                         THEN RowDates(n)
                         ELSE [i \in 1..n |-> i]
            /\ start_date = 0
            /\ end_date = 0
            /\ days = 0
            /\ adherence_percent \in (IF notebook = "strava" THEN OffSlider ELSE {100})
            /\ frame_columns = {}
    /\ hr_nonadherence_percent \in (IF notebook = "withings_scanwatch"
                                    THEN OffSlider ELSE {0})
    /\ detect_adherence_only = (notebook \notin {"withings_scanwatch"})
    /\ nonadherence_percent = 0
    /\ idxes = {}
    /\ adhered_data = <<>>
    /\ adhered_sessions = <<>>
    /\ use_JSON = TRUE
    /\ hr_df_datetime = "str"
    /\ list_indices = {}
    /\ hr_num_blocks_to_keep = <<>>
    /\ hrs_adherence = <<>>
    /\ dta = <<>>
    /\ time_of_day = <<>>
    /\ differ_groups = <<>>
    /\ df = [datetime |-> <<>>, time_of_day |-> <<>>]
    /\ IdleClean
    /\ IdleScale
    /\ IdleRetry
    /\ IdleSeed
    /\ IdleErr
    /\ IdleMvn
    /\ IdleReg
    /\ IdlePol
    /\ IdleFit

NextParam ==
    \/ AdherenceSimulator
    \/ WithingsNonAdherence
    \/ FlagNonAdherence
    \/ CreateSynthDf

SpecParam == InitParam /\ [][NextParam]_vars

-----------------------------------------------------------------------------
(* Multivariate-normal cleaning (SpecMvn): withings_scanwatch 934-959 and
   withings_sleep 851-862.  data holds the rows (Length (hours), Median heart
   rate); the density of a row depends on its two values only, so rows with
   identical values carry the same flag. *)

\* number of nights in the frame
MaxRows == 4

\* the values a row can take: two ordinary nights and the injected outlier
SleepRows == {<<7, 60>>, <<8, 55>>, <<3, outlier_median_heart_rate>>}

\* np.where(np.logical_and(data[:,0] == data[i,0], data[:,1] == data[i,1]))[0].item(0):
\* the Python index in data of the first row whose values equal those of row i
FirstEqual(d, i) ==
    SetMin({j \in 1..Len(d) : d[j][1] = d[i][1] /\ d[j][2] = d[i][2]}) - 1

\* np.delete(arr, idx, axis=0) for an index inside arr
np_delete(arr, idx) ==
    [k \in 1..(Len(arr) - 1) |-> IF k <= idx THEN arr[k] ELSE arr[k + 1]]

\* the loop "for i, boolean in enumerate(outlier)" from row i on (i counts
\* from 1); np.delete raises IndexError for an index that is out of bounds
RECURSIVE MvnCleanLoop(_, _, _, _)
MvnCleanLoop(d, flags, nd, i) ==
    IF i > Len(d) THEN [new_data |-> nd, raised |-> "none"]
    ELSE IF ~flags[i] THEN MvnCleanLoop(d, flags, nd, i + 1)
    ELSE LET idx == FirstEqual(d, i)
         IN  IF idx >= Len(nd)
             THEN [new_data |-> nd, raised |-> "IndexError"]
             ELSE MvnCleanLoop(d, flags, np_delete(nd, idx), i + 1)

InitMvn ==
    /\ notebook \in {"withings_scanwatch", "withings_sleep"}
    /\ pc = "detect"
    /\ \E n \in 0..MaxRows : data \in [1..n -> SleepRows]
    \* outlier = model.pdf(data).reshape(-1) < threshold
    /\ \E low_density \in SUBSET SleepRows :
          is_outlier = [i \in 1..Len(data) |-> data[i] \in low_density]
    /\ new_data = <<>>
    /\ raised = "none"
    /\ IdleClean
    /\ IdleScale
    /\ IdleAdh
    /\ IdleW
    /\ IdleAb
    /\ IdleRetry
    /\ IdleSeed
    /\ IdleSynth
    /\ IdleReg
    /\ IdlePol
    /\ IdleFit

\* new_data = copy.deepcopy(data), then the deleting loop
MvnClean ==
    /\ pc = "detect"
    /\ LET out == MvnCleanLoop(data, is_outlier, data, 1)
       IN  /\ new_data' = out.new_data
           /\ raised' = out.raised
    /\ pc' = "cleaned"
    /\ UNCHANGED <<notebook, data, is_outlier>>
    /\ UNCHANGED <<cleanVars, scaleVars, adhVars, wVars, abVars, retryVars, seedVars, synthVars, regVars, polVars, fitVars>>

NextMvn == MvnClean

SpecMvn == InitMvn /\ [][NextMvn]_vars

-----------------------------------------------------------------------------
(* Start and stop points (SpecRegions): withings_scanwatch 415-431 and
   436-452, withings_body_plus 292-308, withings_sleep 396-406.  The detection
   frame has one row per tick of pd.date_range, so row i carries the timestamp
   of the i-th tick. *)

\* number of rows of the detection frame
MaxSamples == 6

\* freq="600s" of hr_ts_col, in seconds
ts_freq == 600

\* hr_adherence_detect.timestamp[i], in seconds after the first tick
timestamp(i) == ts_freq * i

\* len(list(g)) for the group of groupby(a) that starts at Python index i
GroupLen(a, i) ==
    SetMin({l \in 1..(Len(a) - i) : i + l = Len(a) \/ a[i + l + 1] # a[i + 1]})

\* contiguous_regions(a), from the group that starts at Python index i on
RECURSIVE RegionsFrom(_, _)
RegionsFrom(a, i) ==
    IF i >= Len(a) THEN <<>>
    ELSE LET l == GroupLen(a, i)
         IN  (IF a[i + 1] THEN <<<<i, i + l>>>> ELSE <<>>) \o RegionsFrom(a, i + l)

contiguous_regions(a) == RegionsFrom(a, 0)

\* the loop that fills start_stops from the regions res, from its k-th on
RECURSIVE StartStopsFrom(_, _, _)
StartStopsFrom(res, len, k) ==
    IF k > Len(res) THEN <<>>
    ELSE LET x == res[k]
         IN  (IF x[1] >= 0 /\ x[1] < len /\ x[2] >= 0 /\ x[2] < len
              THEN <<<<timestamp(x[1]), timestamp(x[2])>>>>
              ELSE <<>>) \o StartStopsFrom(res, len, k + 1)

InitRegions ==
    /\ notebook \in {"withings_scanwatch", "withings_body_plus", "withings_sleep"}
    /\ pc = "regions"
    /\ data = <<>>
    /\ \E n \in 0..MaxSamples : is_using \in [1..n -> BOOLEAN]
    /\ start_stops = <<>>
    /\ IdleClean
    /\ IdleScale
    /\ IdleAdh
    /\ IdleW
    /\ IdleAb
    /\ IdleRetry
    /\ IdleSeed
    /\ IdleSynth
    /\ IdleErr
    /\ IdleMvn
    /\ IdlePol
    /\ IdleFit

\* the start/stop cell
StartStops ==
    /\ pc = "regions"
    /\ start_stops' = StartStopsFrom(contiguous_regions(is_using), Len(is_using), 1)
    /\ pc' = "listed"
    /\ UNCHANGED <<notebook, data, is_using>>
    /\ UNCHANGED <<cleanVars, scaleVars, adhVars, wVars, abVars, retryVars, seedVars, synthVars, errVars, mvnVars, polVars, fitVars>>

NextRegions == StartStops

SpecRegions == InitRegions /\ [][NextRegions]_vars

-----------------------------------------------------------------------------
(* Simulation and detection in polar_h10 (SpecPolar): the non-adherence cell
   314-347 followed by the detection cell 367-378.  data's keys are the dates
   that have a session, as day numbers inside start_date..end_date; adhered_dates
   is the domain of adhered_sessions, since the loop removes a key from both
   together. *)

\* number of dates between start_date and end_date
MaxRangeDays == 7

InitPolar ==
    /\ notebook = "polar_h10"
    /\ pc = "simulate"
    /\ block_level \in {"day", "week"}
    /\ adherence_percent \in Percents
    /\ start_date = 1
    /\ end_date = MaxRangeDays
    /\ \E keys \in SUBSET (start_date..end_date) : data = Ascending(keys)
    /\ nonadherence_percent = 0
    /\ detect_adherence_only = TRUE
    /\ idxes = {}
    /\ adhered_data = <<>>
    /\ adhered_sessions = <<>>
    /\ continuous = <<>>
    /\ days = 0
    /\ dta = <<>>
    /\ frame_columns = {}
    /\ time_of_day = <<>>
    /\ differ_groups = <<>>
    /\ df = [datetime |-> <<>>, time_of_day |-> <<>>]
    /\ is_wearing = <<>>
    /\ IdleClean
    /\ IdleScale
    /\ IdleW
    /\ IdleRetry
    /\ IdleSeed
    /\ IdleErr
    /\ IdleMvn
    /\ IdleReg
    /\ IdleFit

\* the detection cell: datelist = pd.date_range(start_date, end_date)
PolarDetect ==
    /\ pc = "done"
    /\ notebook = "polar_h10"
    /\ is_wearing' =
          [i \in 1..(end_date - start_date + 1) |->
              LET day == start_date + i - 1
              IN  IF day \in DOMAIN adhered_sessions
                  THEN IF \E k \in 1..Len(adhered_sessions[day]) :
                              adhered_sessions[day][k] = 0
                       THEN 0
                       ELSE 1
                  ELSE 0]
    /\ pc' = "detected"
    /\ UNCHANGED <<notebook, data>>
    /\ UNCHANGED <<cleanVars, scaleVars, adhVars, wVars, abVars, retryVars, seedVars, synthVars, errVars, mvnVars, regVars, fitVars>>

NextPolar == PolarNonAdherence \/ PolarDetect

SpecPolar == InitPolar /\ [][NextPolar]_vars

-----------------------------------------------------------------------------
(* The non-adherence frame of fitbit_charge_6 (SpecFitbit): cells 335-337 and
   340-349.  Timestamps are seconds after START_DATE 00:00:00; the range from
   START_DATE to END_DATE 23:59:59 is shortened to MaxSeconds seconds.  data
   is the list results, one (date_time, heart_rate_value) row per reading. *)

\* number of seconds from START_DATE 00:00:00 to END_DATE 23:59:59
MaxSeconds == 4

\* number of (start, end) pairs in intervals_to_nullify
MaxIntervals == 2

\* the value the lambda of line 343 puts where the reading is missing
None == -1

\* pd.date_range(start=START_DATE, end=END_DATE + " 23:59:59", freq='S')
date_range == [i \in 1..MaxSeconds |-> i - 1]

\* entry["value"] of the reading at second t
heart_rate_value(t) == 60 + (t % 3)

\* df = pd.DataFrame(results, columns=["datetime", "heart_rate"])
DataFrame(rows) ==
    [datetime   |-> [i \in 1..Len(rows) |-> rows[i][1]],
     heart_rate |-> [i \in 1..Len(rows) |-> rows[i][2]]]

\* the rows of frame at the positions keep, in their order
Rows(frame, keep) ==
    LET at == Ascending(keep)
    IN  [datetime   |-> [i \in 1..Len(at) |-> frame.datetime[at[i]]],
         heart_rate |-> [i \in 1..Len(at) |-> frame.heart_rate[at[i]]]]

\* mutant of Mask: the end of the interval is not nullified
Mask_KeepsEnd(t, start_time, end_time) == (t < start_time) \/ (t >= end_time)

\* (non_adherence_df['datetime'] < start_time) | (non_adherence_df['datetime'] > end_time)
Mask(t, start_time, end_time) == (t < start_time) \/ (t > end_time)

\* the loop "for start_time, end_time in intervals_to_nullify", from the k-th pair on
RECURSIVE Nullified(_, _, _)
Nullified(frame, intervals, k) ==
    IF k > Len(intervals) THEN frame
    ELSE Nullified(Rows(frame, {i \in 1..Len(frame.datetime) :
                                  Mask(frame.datetime[i], intervals[k][1],
                                       intervals[k][2])}),
                   intervals, k + 1)

\* set_index('datetime').reindex(date_range).reset_index(), then the lambda:
\* one row per label of date_range, with the reading of the row that carries
\* the label (labels are unique) and None where no row carries it
Reindexed(frame, labels) ==
    [datetime   |-> labels,
     heart_rate |-> [i \in 1..Len(labels) |->
                        LET hits == {j \in 1..Len(frame.datetime) :
                                        frame.datetime[j] = labels[i]}
                        IN  IF hits = {} THEN None
                            ELSE frame.heart_rate[SetMin(hits)]]]

InitFitbit ==
    /\ notebook = "fitbit_charge_6"
    /\ pc = "nullify"
    \* the device returns at most one reading per second of the range: all
    \* of them, or all but one
    /\ \E present \in {(0..(MaxSeconds - 1)) \ gap : gap \in {{}} \cup {{t} : t \in 0..(MaxSeconds - 1)}} :
          LET at == Ascending(present)
          IN  data = [i \in 1..Len(at) |-> <<at[i], heart_rate_value(at[i])>>]
    /\ df = DataFrame(data)
    \* every interval starts inside the range and ends at or after its start
    /\ \E n \in 0..MaxIntervals :
          intervals_to_nullify \in
              [1..n -> {iv \in (0..(MaxSeconds - 1)) \X (0..(MaxSeconds + 1)) :
                           iv[1] <= iv[2]}]
    /\ non_adherence_df = [datetime |-> <<>>, heart_rate |-> <<>>]
    /\ end_date = 0
    /\ np_state = 0
    /\ py_state = 0
    /\ random_seeded = FALSE
    /\ selected_dates = <<>>
    /\ indices_to_remove = <<>>
    /\ cell_runs = 0
    /\ observed = {}
    /\ IdleClean
    /\ IdleScale
    /\ IdleAdh
    /\ IdleW
    /\ IdleAb
    /\ IdleRetry
    /\ IdleErr
    /\ IdleMvn
    /\ IdleReg
    /\ IdlePol

\* cell 335-337: non_adherence_df = df.copy(), then the filtering loop
NullifyRows ==
    /\ pc = "nullify"
    /\ non_adherence_df' = Nullified(df, intervals_to_nullify, 1)
    /\ pc' = "reindex"
    /\ UNCHANGED <<notebook, data, df, end_date>>
    /\ UNCHANGED <<cleanVars, scaleVars, adhVars, wVars, abVars, retryVars, seedVars, errVars, mvnVars, regVars, polVars>>

\* cell 340-349: the frame is re-indexed on the complete date range
Reindex ==
    /\ pc = "reindex"
    /\ non_adherence_df' = Reindexed(non_adherence_df, date_range)
    /\ pc' = "reindexed"
    /\ UNCHANGED <<notebook, data, df, end_date>>
    /\ UNCHANGED <<cleanVars, scaleVars, adhVars, wVars, abVars, retryVars, seedVars, errVars, mvnVars, regVars, polVars>>

NextFitbit == NullifyRows \/ Reindex

SpecFitbit == InitFitbit /\ [][NextFitbit]_vars

-----------------------------------------------------------------------------
(* Properties of injection, detection and cleaning (SpecClean). *)


\* Python indices of odata that hold an injected row
InjectedAt(nb, ri) ==
    IF nb = "abbott" THEN {ri[2]}
    ELSE {ri[2], IF ri[2] <= ri[1] THEN ri[1] + 1 ELSE ri[1]}

\* index in data of the row at non-injected index i of odata
OrigIndex(i) == i - Cardinality({j \in InjectedAt(notebook, random_indices) : j < i})

\* Python indices that vals(c, idx) reads, for a list of length n
NeighbourIdx(n, idx) == vals([k \in 1..n |-> k - 1], idx)

\* indices of s (values over 12 times the denominator of c) whose |z-score|,
\* computed with the mean and standard deviation of c, exceeds t
ZAgainst(s, c, t) ==
    LET n  == Len(c)
        dc == Deviations(c)
        ds == [j \in 1..n |-> 12 * dc[j]]
        dv == LET total == 12 * Sum(c) IN [i \in 1..Len(s) |-> n * s[i] - total]
        g  == GCD(GCDSeq(ds), GCDSeq(dv))
    IN  IF GCDSeq(ds) = 0 THEN {}
        ELSE LET bound == t * t * SumSq(ds, g)
             IN  {i \in 0..(Len(s) - 1) :
                     n * (dv[i + 1] \div g) * (dv[i + 1] \div g) > bound}

C3_MeanOfAdjacentUnflagged ==
    runs >= 1 =>
        \A idx \in lcs :
            LET nbrs == {j \in {idx - 2, idx - 1, idx + 1, idx + 2} :
                            j >= 0 /\ j < Len(cx) /\ j \notin lcs}
            IN  nbrs # {} =>
                    Cardinality(nbrs) * odata[idx + 1]
                        = 12 * Sum([k \in 1..Len(cx) |->
                                       IF (k - 1) \in nbrs THEN cx[k] ELSE 0])

\* C4 (as stated): for a flagged point within 2 positions of either end, the
\* average is taken over 1 to 4 points, all of them next to the flagged point
\* (none from the opposite end of the series, and not the point itself).
C4_BoundaryNeighboursAreAdjacent ==
    runs >= 1 =>
        \A idx \in lcs :
            (idx <= 2 \/ idx >= Len(cx) - 3) =>
                LET used == NeighbourIdx(Len(cx), idx)
                IN  /\ Len(used) >= 1
                    /\ Len(used) <= 4
                    /\ \A p \in Range(used) : p # idx /\ Abs(p - idx) <= 3

C6_NonInjectedUnchanged ==
    runs = 1 =>
        \A i \in 0..(Len(odata) - 1) :
            i \notin InjectedAt(notebook, random_indices) =>
                odata[i + 1] = 12 * data[OrigIndex(i) + 1]

\* C6 (amended): every non-injected point that detection did not flag has the
\* same value after cleaning as before injection.
C6_UnflaggedNonInjectedUnchanged ==
    runs = 1 =>
        \A i \in 0..(Len(odata) - 1) :
            (i \notin InjectedAt(notebook, random_indices) /\ i \notin lcs) =>
                odata[i + 1] = 12 * data[OrigIndex(i) + 1]

\* C6 witness: cleaning replaced an injected point and left a non-injected,
\* unflagged point that lies after it.
C6_Witness ==
    /\ runs = 1
    /\ \E i \in lcs, j \in 0..(Len(odata) - 1) :
          /\ i \in InjectedAt(notebook, random_indices)
          /\ j > i
          /\ j \notin lcs
          /\ j \notin InjectedAt(notebook, random_indices)

\* C7 (as stated): on a long series with no natural outlier, after the two
\* outliers 240 and 20 are injected, both are in the series detection runs on
\* and detection with threshold 3 flags exactly their positions.
C7_FlagsExactlyTheTwoInjected ==
    (runs = 1 /\ threshold = 3 /\ Len(data) = LongLen) =>
        /\ 240 \in Range(cx)
        /\ 20 \in Range(cx)
        /\ lcs = {i \in 0..(Len(cx) - 1) : cx[i + 1] \in Range(outliers)}

-----------------------------------------------------------------------------
(* Properties of the smart-scale imputation (SpecScale). *)

\* C2 (as stated): every index that the outlier detection flags has its value
\* replaced by the imputation loop; none is skipped.
C2_EveryFlaggedPointReplaced ==
    pc = "scale_done" =>
        \A i \in wt_outlier_indices :
            /\ i \in Range(printed)
            /\ df_outlier[i + 1] # 3 * wt_list[i + 1]

-----------------------------------------------------------------------------
(* Properties of the non-adherence simulation (SpecAdh). *)

\* the points of the input that are in the result
Kept ==
    IF notebook = "polar_h10" THEN DOMAIN adhered_sessions
    ELSE IF notebook = "withings_scanwatch" THEN Range(hrs_adherence)
    ELSE Range(adhered_data)

\* len(result)
ResultLen ==
    IF notebook = "polar_h10" THEN Cardinality(DOMAIN adhered_sessions)
    ELSE IF notebook = "withings_scanwatch" THEN Len(hrs_adherence)
    ELSE Len(adhered_data)

\* the fraction of blocks the simulation is asked to keep, in hundredths
KeepFraction ==
    IF notebook = "withings_body_plus"
    THEN (IF detect_adherence_only THEN 100 ELSE 100 - nonadherence_percent)
    ELSE IF notebook = "withings_scanwatch"
    THEN (IF detect_adherence_only THEN 100 ELSE 100 - hr_nonadherence_percent)
    ELSE adherence_percent

\* C8: the result of the deletion policy is never longer than its input.
C8_ResultNoLongerThanInput == pc = "done" => ResultLen <= Len(data)

\* C8 witness: a run that kept some points and deleted others.
C8_Witness == pc = "done" /\ ResultLen > 0 /\ ResultLen < Len(data)

\* C9 (as stated): with a keep fraction of 1 the result has every input point,
\* at both block levels and for lengths that are no multiple of the block size.
C9_KeepAllReturnsAll ==
    (pc = "done" /\ KeepFraction = 100) => ResultLen = Len(data)

\* C10 (as stated): at block level "week" every 7-point block of the input is
\* either wholly in the result or wholly absent from it.
C10_WeekNeverSplit ==
    (pc = "done" /\ block_level = "week") =>
        \A b \in 0..((Len(data) \div 7) - 1) :
            LET week == {data[7 * b + k] : k \in 1..7}
            IN  week \subseteq Kept \/ week \cap Kept = {}

\* C11 (as stated): AdherenceSimulator at block level "week" with
\* adherence_percent 0.89 on a 90-day series retains between 11 and 13 of the
\* 12 full weeks.
C11_RetainsElevenToThirteenWeeks ==
    (pc = "done" /\ notebook = "strava" /\ block_level = "week"
        /\ adherence_percent = 89 /\ Len(data) = QuarterDays) =>
        LET retained == {b \in 0..((Len(data) \div 7) - 1) :
                            {data[7 * b + k] : k \in 1..7} \subseteq Kept}
        IN  /\ Cardinality(retained) >= 11
            /\ Cardinality(retained) <= 13

\* C12 (as stated): at block level "week" every removed day belongs to a run
\* of 7 consecutive removed days, so no isolated single day is removed
\* (polar_h10, withings_scanwatch, withings_body_plus).
C12_RemovedDaysFormWeekBlocks ==
    (pc = "done" /\ block_level = "week" /\ notebook # "strava") =>
        LET removed == Range(data) \ Kept
        IN  \A d \in removed :
                \E first \in (d - 6)..d : (first..(first + 6)) \subseteq removed

\* C14 (as stated): the list remove_dates returns is shorter than its input by
\* exactly step * int(int(len(dates) / step) * percent) dates.
C14_RemovesExactlyTheComputedBlocks ==
    (pc = "done" /\ notebook = "withings_scanwatch" /\ ~detect_adherence_only) =>
        LET dates == sorted(unique(data))
        IN  Len(hr_num_blocks_to_keep)
                = Len(dates) - step_size(block_level)
                      * num_dates_to_remove(dates, hr_nonadherence_percent, block_level)

\* C15 (as stated): after the Withings simulation the heart-rate frame keeps
\* exactly the rows whose date is in the list remove_dates returned.
C15_KeepsRowsOfRemainingDates ==
    (pc = "done" /\ notebook = "withings_scanwatch" /\ ~detect_adherence_only) =>
        hrs_adherence
            = AdheredFrom(data,
                          {i \in 0..(Len(data) - 1) :
                              data[i + 1] \in Range(hr_num_blocks_to_keep)}, 0)

\* C16 (as stated): the adherence simulation leaves the series it was given
\* as it was: the same points and the same column contents.
C16_InputUnchanged == [][data' = data /\ hr_df_datetime' = hr_df_datetime]_vars

-----------------------------------------------------------------------------
(* Properties of the flagging cell and the summary cells (SpecAbbott). *)

\* the points of continuous inside the selected window, in order
InWindow ==
    LET start == 24 * start_date
        end   == start + 24 * days
        Inside(elem) == elem.x >= start /\ elem.x <= end
    IN  SelectSeq(continuous, Inside)

C17_SummaryLeavesInputUnchanged ==
    [][(pc = "split" \/ pc = "differ") =>
          (frame_columns' = frame_columns /\ continuous' = continuous /\ data' = data)]_vars

-----------------------------------------------------------------------------
(* Properties of cells that are run again (SpecRetry). *)

\* the size of the output of the cell that is run again
StageOutputLen ==
    IF notebook = "my_fitness_pal" THEN Len(lunch)
    ELSE IF notebook = "withings_scanwatch" THEN Len(filtered_sleeps)
    ELSE Len(odata)

\* C18 (as stated): running a cell again with the same parameters leaves a
\* result equivalent to that of a single run: from the first run on, the size
\* of the cell's output no longer changes.
C18_RerunKeepsOutputSize ==
    [][stage_runs >= 1 => StageOutputLen' = StageOutputLen]_vars

-----------------------------------------------------------------------------
(* Properties of the seeded cells (SpecSeed). *)

-----------------------------------------------------------------------------
(* Properties of the synthetic series (SpecSynth). *)

\* C20 (as stated): for every start_date <= end_date the generator returns one
\* point per sampling interval: the number of points is
\* (end_date - start_date) / interval, give or take 1.
C20_OnePointPerInterval ==
    pc = "generated" =>
        LET expected == ((end_date - start_date) * 1440) \div minute_step
        IN  /\ Len(df.datetime) >= expected - 1
            /\ Len(df.datetime) <= expected + 1

\* C21 (as stated): for every requested start_date and end_date, every point
\* of the generated series has its timestamp inside [start_date, end_date]
\* (up to the end of the day end_date).
C21_TimestampsInsideRequestedRange ==
    pc = "generated" =>
        \A i \in 1..Len(df.datetime) :
            /\ df.datetime[i] >= 1440 * start_date
            /\ df.datetime[i] < 1440 * (end_date + 1)

\* C22: within the generated series every timestamp is later than the one
\* before it: the timestamps are in order and no two points share one.
C22_TimestampsStrictlyIncreasing ==
    pc = "generated" =>
        \A i \in 1..(Len(df.datetime) - 1) : df.datetime[i] < df.datetime[i + 1]

\* C22 witness: a generated series that crosses a day boundary and has the
\* gap left by the dropped rows.
C22_Witness ==
    /\ pc = "generated"
    /\ \E i \in 1..(Len(df.datetime) - 1) :
          df.datetime[i] \div 1440 # df.datetime[i + 1] \div 1440
    /\ \E i \in 1..(Len(df.datetime) - 1) :
          /\ df.datetime[i] <= missing_start
          /\ df.datetime[i + 1] >= missing_end


-----------------------------------------------------------------------------
(* Properties of the cells run with parameters outside their range
   (SpecParam). *)

\* the percentage the cell that has run was given
KeepParameter ==
    IF notebook = "withings_scanwatch" THEN hr_nonadherence_percent
    ELSE adherence_percent

\* C23: once an adherence simulation has run with a keep fraction below 0 or
\* above 1, it has failed with InvalidParameterError and left no result.
C23_OffRangeFractionFails ==
    ( /\ notebook \in {"strava", "withings_scanwatch", "abbott"}
      /\ pc \in {"done", "split"}
      /\ (KeepParameter < 0 \/ KeepParameter > 100) )
        => /\ raised = "InvalidParameterError"
           /\ adhered_data = <<>>
           /\ hrs_adherence = <<>>
           /\ dta = <<>>

\* C24: once a series has been requested for a range whose end is before its
\* start, the request has failed with InvalidRangeError and returned no series.
C24_EndBeforeStartFails ==
    /\ (notebook = "dexcom_g6_pro" /\ pc = "generated" /\ end_date < start_date)
          => (raised = "InvalidRangeError" /\ df.datetime = <<>>)
    /\ (notebook = "abbott" /\ pc = "split" /\ days < 0)
          => (raised = "InvalidRangeError" /\ dta = <<>>)

-----------------------------------------------------------------------------
(* Properties of the two-group test (SpecAbbott). *)

\* C25: once the two-group test has been asked for with a group of fewer than
\* 2 points (a split index of 0 or 1 for the first group), it has failed with
\* InsufficientDataError.
C25_SmallGroupFails ==
    ( /\ pc = "done"
      /\ Len(differ_groups) = 2
      /\ (Len(differ_groups[1]) < 2 \/ Len(differ_groups[2]) < 2) )
        => raised = "InsufficientDataError"

-----------------------------------------------------------------------------
(* Properties of the multivariate-normal cleaning (SpecMvn). *)

\* the rows of d that are not flagged, in their order, from row i on
RECURSIVE UnflaggedRows(_, _, _)
UnflaggedRows(d, flags, i) ==
    IF i > Len(d) THEN <<>>
    ELSE IF flags[i] THEN UnflaggedRows(d, flags, i + 1)
    ELSE <<d[i]>> \o UnflaggedRows(d, flags, i + 1)

\* C26: after the cleaning loop, new_data holds exactly the rows of data whose
\* density is not below the threshold, in their original order, whatever the
\* number of flagged rows and also with rows of identical values.
C26_NewDataIsUnflaggedRows ==
    pc = "cleaned" =>
        /\ raised = "none"
        /\ new_data = UnflaggedRows(data, is_outlier, 1)

-----------------------------------------------------------------------------
(* Properties of the smart-scale imputation (SpecScale), continued. *)

\* C27: every replaced entry holds an average around it: an interior entry i
\* the average with (or of) the single entries i-1 and i+1, the first entry the
\* average with the 2 entries after it, the last entry the average with the 2
\* entries before it.  df_outlier is over the denominator 3 of wt_list's.
C27_AveragesAdjacentEntries ==
    pc = "scale_done" =>
        \A k \in 1..Len(printed) :
            LET o == printed[k]
                n == Len(df_outlier)
                v == df_outlier[o + 1]
            IN  IF o = 0
                THEN v = wt_list[1] + wt_list[2] + wt_list[3]
                ELSE IF o = n - 1
                THEN v = wt_list[n] + wt_list[n - 1] + wt_list[n - 2]
                ELSE \/ v = wt_list[o] + wt_list[o + 1] + wt_list[o + 2]
                     \/ 2 * v = 3 * (wt_list[o] + wt_list[o + 2])

-----------------------------------------------------------------------------
(* Properties of the start and stop points (SpecRegions). *)

\* the maximal runs of consecutive True samples of a, as pairs of the Python
\* indices of their first and last sample
MaximalRuns(a) ==
    {r \in (0..(Len(a) - 1)) \X (0..(Len(a) - 1)) :
        /\ r[1] <= r[2]
        /\ \A j \in r[1]..r[2] : a[j + 1]
        /\ (r[1] = 0 \/ ~a[r[1]])
        /\ (r[2] = Len(a) - 1 \/ ~a[r[2] + 2])}

\* C28: start_stops holds exactly one pair for every maximal run of True
\* samples, the run that reaches the last sample included; each pair starts
\* at the first sample of its run and the pairs are ascending and do not
\* overlap.
C28_OnePairPerMaximalRun ==
    pc = "listed" =>
        /\ Len(start_stops) = Cardinality(MaximalRuns(is_using))
        /\ \A r \in MaximalRuns(is_using) :
              \E k \in 1..Len(start_stops) : start_stops[k][1] = timestamp(r[1])
        /\ \A k \in 1..(Len(start_stops) - 1) :
              /\ start_stops[k][1] < start_stops[k + 1][1]
              /\ start_stops[k][2] <= start_stops[k + 1][1]

-----------------------------------------------------------------------------
(* Properties of simulation and detection in polar_h10 (SpecPolar). *)

\* C29: a date of the range is reported as not worn (0) exactly when it has no
\* session or was chosen for non-adherence (deleted or padded with zeros), and
\* every other date is reported as worn (1); no original session holds a 0.0.
C29_DetectionAgreesWithSimulation ==
    pc = "detected" =>
        /\ Len(is_wearing) = end_date - start_date + 1
        /\ \A i \in 1..Len(is_wearing) :
              LET day == start_date + i - 1
              IN  IF day \notin Range(data) \/ day \in idxes
                  THEN is_wearing[i] = 0
                  ELSE is_wearing[i] = 1

\* a detection over a range with a date without a session, a deleted session,
\* a padded session and an untouched session
C29_Witness ==
    /\ pc = "detected"
    /\ \E day \in start_date..end_date : day \notin Range(data)
    /\ \E day \in idxes : day \notin DOMAIN adhered_sessions
    /\ \E day \in idxes : day \in DOMAIN adhered_sessions
    /\ \E i \in 1..Len(is_wearing) : is_wearing[i] = 1

-----------------------------------------------------------------------------
(* Properties of the non-adherence frame of fitbit_charge_6 (SpecFitbit). *)

\* the input holds one reading for every second of the range
OneReadingPerSecond == df.datetime = date_range

\* C30: given one reading for every second of the range, the re-indexed frame
\* has exactly one row per second of the range, heart_rate is None at a second
\* exactly when the second lies in one of the closed intervals [start, end] of
\* intervals_to_nullify, and df is still the frame built from the readings.
C30_NoneExactlyInsideIntervals ==
    (pc = "reindexed" /\ OneReadingPerSecond) =>
        /\ non_adherence_df.datetime = date_range
        /\ Len(non_adherence_df.heart_rate) = Len(date_range)
        /\ \A i \in 1..Len(date_range) :
              (non_adherence_df.heart_rate[i] = None)
                 <=> \E k \in 1..Len(intervals_to_nullify) :
                        /\ intervals_to_nullify[k][1] <= date_range[i]
                        /\ date_range[i] <= intervals_to_nullify[k][2]
        /\ df = DataFrame(data)

\* a full input re-indexed after two intervals, one of a single second and one
\* that runs past the end of the range, with a reading left between them
C30_Witness ==
    /\ pc = "reindexed"
    /\ OneReadingPerSecond
    /\ \E k \in 1..Len(intervals_to_nullify) :
          intervals_to_nullify[k][1] = intervals_to_nullify[k][2]
    /\ \E k \in 1..Len(intervals_to_nullify) :
          /\ intervals_to_nullify[k][1] < intervals_to_nullify[k][2]
          /\ intervals_to_nullify[k][2] > MaxSeconds - 1
    /\ \E i \in 1..Len(date_range) : non_adherence_df.heart_rate[i] # None

====
